---- MODULE Spec2Model ----
(***************************************************************************)
(* Model of the historical merge engine of konflux_metrics                 *)
(* (src/append_to_historical.py): merge_data reads an increment file and   *)
(* the historical store, upserts the increment's records by id, trims the  *)
(* records older than the cutoff, sorts, recomputes the overall summary    *)
(* and saves the store.  The model follows the 'github' configuration      *)
(* (keys repositories / prs / pr_number, extra_metrics); 'gitlab' runs the *)
(* same code on its own files under other key names.                       *)
(*                                                                         *)
(* Timestamps.  A record's merged_at is the platform's string              *)
(* "YYYY-MM-DDTHH:MM:SSZ", the cutoff is Python's isoformat()              *)
(* "YYYY-MM-DDTHH:MM:SS[.ffffff]+00:00"; jq and list.sort compare strings  *)
(* by code point.  The first 19 characters order two such strings as the   *)
(* instants they denote, and where they are equal 'Z' is above '.' and     *)
(* '+', so merged_at >= cutoff_iso holds exactly when the record's instant *)
(* is not before the cutoff's instant cut to its unit.  A timestamp is     *)
(* therefore modelled by the integer number of time units it denotes       *)
(* (the unit is called a day) and the string comparison by >= on it.       *)
(* merge_data reads the clock three times (created_at, cutoff,             *)
(* last_updated); the three readings are one reading here.                 *)
(*                                                                         *)
(* 'repositories' is a Python dict from group name to {prs: [...]}: it is  *)
(* modelled as a function, without the insertion order of its keys.        *)
(*                                                                         *)
(* The two analyzers (src/analyze_github_flakiness.py and                  *)
(* src/analyze_gitlab_flakiness.py) are a second state machine, RunSpec,   *)
(* over the variable run: one step per HTTP request of main, whose answer  *)
(* (data, rate-limit signal or error) the platform chooses.  Spec is the   *)
(* merge engine with no analyzer running, RunSpec an analyzer with the     *)
(* store absent.                                                           *)
(***************************************************************************)
EXTENDS Integers, Sequences, FiniteSets, TLC

\* ---------------------------------------------------------------- bounds
MaxTime == 1        \* the clock runs over 0..MaxTime
MaxDays == 1        \* merge_data is called with days_to_keep in 0..MaxDays
MaxBatch == 2       \* an increment holds at most MaxBatch records in all
MaxCommBatch == 1   \* the size of the batches checked for commuting
MaxPages == 2       \* the platform's listing of the first group has at most MaxPages pages
MaxPageLen == 1     \* with at most MaxPageLen changes each
MaxCommits == 2     \* a change has at most MaxCommits commits
MaxRuns == 2        \* a commit has at most MaxRuns CI instances
MaxAttempts == 3    \* a request is followed for at most MaxAttempts attempts
MaxMerges == 2      \* merge_data is followed step by step for at most MaxMerges invocations
MaxComments == 3    \* a change has at most MaxComments discussion comments

\* ------------------------------------------------ constants of the program
DaysBack == 7       \* days_back of main
PageLimit == 10     \* "if page > 10: break" of the listing
NearLimit == 10     \* "rate_limit_remaining < 10" of main
DaysToKeep == 90    \* days_to_keep of the merge engine's main
\* the values of the X-RateLimit-Remaining header (a missing header reads 0)
RemainingValues == {0, 9, 10}

Groups == {"A", "B"}
\* the changes of each group: A has two, B has one
ItemIds == [name \in Groups |-> IF name = "A" THEN {1, 2} ELSE {1}]
Retests == {0, 2}

\* A JSON document is a record; its field doc tells the three cases of
\* load_json apart: the file does not exist (None), it holds {} (falsy, like
\* None), or it holds a non-empty object.
None == [doc |-> "None"]
EmptyDoc == [doc |-> "empty"]

\* ---------------------------------------------------------------- state
VARIABLES
    now,          \* datetime.now(timezone.utc), in days
    historical,   \* the content of the historical file (output_file = historical_file)
    run           \* the locals of an analyzer's main and the fields of its analyzer object

vars == <<now, historical, run>>

\* ------------------------------------------------------- pure operators

\* item.get(key, default)
Get(item, key, default) == IF key \in DOMAIN item THEN item[key] ELSE default

\* .merged_at >= "{cutoff_iso}" (jq, string comparison)
InWindow(item, cutoff_iso) == item.merged_at >= cutoff_iso

\* (mutant) the lookup by id is lost: every item is added
DictSet_AlwaysAppend(d, item) == Append(d, item)

\* (mutant) an id already present keeps its old value
DictSet_KeepExisting(d, item) ==
    IF \E i \in 1..Len(d) : d[i].pr_number = item.pr_number
    THEN d
    ELSE Append(d, item)

\* (mutant) an id already present takes the item only if it is not older
DictSet_KeepNewest(d, item) ==
    IF \E i \in 1..Len(d) : d[i].pr_number = item.pr_number
    THEN [i \in 1..Len(d) |->
             IF d[i].pr_number = item.pr_number /\ item.merged_at >= d[i].merged_at
             THEN item ELSE d[i]]
    ELSE Append(d, item)

\* d[id] = item on a dict kept as the sequence of its values in insertion
\* order: an id already present keeps its place and takes the new value,
\* a new id goes last.
DictSet(d, item) ==
    IF \E i \in 1..Len(d) : d[i].pr_number = item.pr_number
    THEN [i \in 1..Len(d) |->
             IF d[i].pr_number = item.pr_number THEN item ELSE d[i]]
    ELSE Append(d, item)

\* {item[id_key]: item for item in items}, then existing_dict[id] = new_item
\* for each new item, as one left fold of DictSet.
RECURSIVE DictFold(_, _)
DictFold(d, items) ==
    IF items = <<>> THEN d
    ELSE DictFold(DictSet(d, Head(items)), Tail(items))

\* (mutant) x goes before the elements with its own key: the sort is not stable
RECURSIVE SortedInsert_BeforeEqual(_, _)
SortedInsert_BeforeEqual(sorted, x) ==
    IF sorted = <<>> THEN <<x>>
    ELSE IF Head(sorted).merged_at > x.merged_at
         THEN <<Head(sorted)>> \o SortedInsert_BeforeEqual(Tail(sorted), x)
         ELSE <<x>> \o sorted

\* one step of the stable descending sort: x goes after every element whose
\* key is >= its own (list.sort(key=merged_at, reverse=True) keeps the
\* original order of equal keys).
RECURSIVE SortedInsert(_, _)
SortedInsert(sorted, x) ==
    IF sorted = <<>> THEN <<x>>
    ELSE IF Head(sorted).merged_at >= x.merged_at
         THEN <<Head(sorted)>> \o SortedInsert(Tail(sorted), x)
         ELSE <<x>> \o sorted

RECURSIVE SortFold(_, _)
SortFold(sorted, items) ==
    IF items = <<>> THEN sorted
    ELSE SortFold(SortedInsert(sorted, Head(items)), Tail(items))

\* (mutant) the list is left in dict order
SortDesc_Unsorted(items) == items

\* filtered_items.sort(key=lambda x: x['merged_at'], reverse=True)
SortDesc(items) == SortFold(<<>>, items)

\* (mutant) nothing is trimmed: records older than the cutoff stay
FilterOld_KeepAll(items, cutoff_iso) == items

\* map(select(.merged_at >= cutoff_iso))
FilterOld(items, cutoff_iso) ==
    SelectSeq(items, LAMBDA item : InWindow(item, cutoff_iso))

\* (mutant) the incoming records are added to the existing ones without the
\* lookup by id
MergeItems_Concat(existing_items, new_items, cutoff_iso) ==
    SortDesc(FilterOld(existing_items \o new_items, cutoff_iso))

\* (mutant) incoming records older than the cutoff are dropped before the
\* upsert, so they replace nothing
MergeItems_SkipStale(existing_items, new_items, cutoff_iso) ==
    LET existing_dict ==
            DictFold(DictFold(<<>>, existing_items), FilterOld(new_items, cutoff_iso))
    IN  SortDesc(FilterOld(existing_dict, cutoff_iso))

\* (mutant) the store's records are trimmed before the upsert, the incoming not
MergeItems_TrimExistingOnly(existing_items, new_items, cutoff_iso) ==
    SortDesc(DictFold(DictFold(<<>>, FilterOld(existing_items, cutoff_iso)), new_items))

\* the body of the loop over the increment's groups for one group
MergeItems(existing_items, new_items, cutoff_iso) ==
    LET existing_dict == DictFold(DictFold(<<>>, existing_items), new_items)
    IN  SortDesc(FilterOld(existing_dict, cutoff_iso))

\* sum(item.get(key, 0) for item in items)
RECURSIVE SumField(_, _)
SumField(items, key) ==
    IF items = <<>> THEN 0
    ELSE Get(Head(items), key, 0) + SumField(Tail(items), key)

\* sum(1 for item in items if item.get('total_retests', 0) > 0)
RECURSIVE CountWithRetests(_)
CountWithRetests(items) ==
    IF items = <<>> THEN 0
    ELSE (IF Get(Head(items), "total_retests", 0) > 0 THEN 1 ELSE 0)
         + CountWithRetests(Tail(items))

RECURSIVE GCD(_, _)
GCD(a, b) == IF b = 0 THEN a ELSE GCD(b, a % b)

\* (items_with_retests / total_items * 100) if total_items > 0 else 0, kept
\* as the exact value of the quotient: a fraction <<num, den>> in lowest terms.
RetestRate(items_with_retests, total_items) ==
    IF total_items > 0
    THEN LET g == GCD(items_with_retests * 100, total_items)
         IN  <<(items_with_retests * 100) \div g, total_items \div g>>
    ELSE <<0, 1>>

\* all_items.extend(container_data.get('prs', [])) over the groups of the store
RECURSIVE AllItems(_, _)
AllItems(repositories, S) ==
    IF S = {} THEN <<>>
    ELSE LET name == CHOOSE g \in S : TRUE
         IN  Get(repositories[name], "prs", <<>>) \o AllItems(repositories, S \ {name})

\* (mutant) both extra metrics add up update_branch_count
BuildSummary_BranchCountTwice(all_items) ==
    LET total_items == Len(all_items)
        total_retests == SumField(all_items, "total_retests")
        items_with_retests == CountWithRetests(all_items)
    IN  [total_prs |-> total_items,
         total_retests |-> total_retests,
         prs_with_retests |-> items_with_retests,
         retest_rate |-> RetestRate(items_with_retests, total_items),
         retest_comments |-> SumField(all_items, "update_branch_count"),
         update_branch_actions |-> SumField(all_items, "update_branch_count")]

\* the overall summary of merge_data (platform 'github': extra_metrics)
BuildSummary(all_items) ==
    LET total_items == Len(all_items)
        total_retests == SumField(all_items, "total_retests")
        items_with_retests == CountWithRetests(all_items)
    IN  [total_prs |-> total_items,
         total_retests |-> total_retests,
         prs_with_retests |-> items_with_retests,
         retest_rate |-> RetestRate(items_with_retests, total_items),
         retest_comments |-> SumField(all_items, "retest_comments"),
         update_branch_actions |-> SumField(all_items, "update_branch_count")]

\* (mutant) only a missing file counts as no increment
Falsy_NoneOnly(document) == document.doc = "None"

\* not increment / not historical: None and the empty document are falsy
Falsy(document) == document.doc # "object"

\* the groups the loop of merge_data visits and what it leaves in each
\* (mutant) the trim and the sort run over every group of the store
MergeRepositories_TrimAll(incoming, repositories, cutoff_iso) ==
    [name \in DOMAIN repositories \cup DOMAIN incoming |->
        [prs |-> MergeItems(IF name \in DOMAIN repositories
                            THEN Get(repositories[name], "prs", <<>>) ELSE <<>>,
                            IF name \in DOMAIN incoming
                            THEN Get(incoming[name], "prs", <<>>) ELSE <<>>,
                            cutoff_iso)]]

\* (incoming is increment.get('repositories', {}))
MergeRepositories(incoming, repositories, cutoff_iso) ==
    [name \in DOMAIN repositories \cup DOMAIN incoming |->
        IF name \in DOMAIN incoming
        THEN LET existing_items ==
                     IF name \in DOMAIN repositories
                     THEN Get(repositories[name], "prs", <<>>)
                     ELSE <<>>
                 new_items == Get(incoming[name], "prs", <<>>)
             IN  [prs |-> MergeItems(existing_items, new_items, cutoff_iso)]
        ELSE repositories[name]]

\* cutoff_date = datetime.now(timezone.utc) - timedelta(days=days_to_keep)
CutoffDate(t, days_to_keep) == t - days_to_keep

\* (mutant) created_at is written by every merge, not only at creation
MergeData_FreshCreatedAt(increment, stored, t, days_to_keep) ==
    IF Falsy(increment) THEN stored
    ELSE LET base == IF Falsy(stored)
                     THEN [repositories |-> <<>>]
                     ELSE stored
             cutoff_iso == CutoffDate(t, days_to_keep)
             repositories == MergeRepositories(Get(increment, "repositories", <<>>),
                                               base.repositories, cutoff_iso)
         IN  [doc |-> "object",
              created_at |-> t,
              days_analyzed |-> days_to_keep,
              repositories |-> repositories,
              last_updated |-> t,
              cutoff_date |-> cutoff_iso,
              summary |-> BuildSummary(AllItems(repositories, DOMAIN repositories))]

\* merge_data(increment_file, historical_file, output_file, 'github', days_to_keep)
\* run at time t: the content of output_file afterwards (stored is the content
\* of historical_file, which main passes as output_file too).
MergeData(increment, stored, t, days_to_keep) ==
    IF Falsy(increment) THEN stored
    ELSE LET base == IF Falsy(stored)
                     THEN [doc |-> "object",
                           created_at |-> t,
                           days_analyzed |-> days_to_keep,
                           repositories |-> <<>>]
                     ELSE stored
             cutoff_iso == CutoffDate(t, days_to_keep)
             repositories ==
                 MergeRepositories(Get(increment, "repositories", <<>>),
                                   base.repositories, cutoff_iso)
         IN  [doc |-> "object",
              created_at |-> base.created_at,
              days_analyzed |-> base.days_analyzed,
              repositories |-> repositories,
              last_updated |-> t,
              cutoff_date |-> cutoff_iso,
              summary |-> BuildSummary(AllItems(repositories, DOMAIN repositories))]

\* ===================================================== the two analyzers
\* analyze_github_flakiness.py and analyze_gitlab_flakiness.py: main walks
\* the configured groups; for each it lists the merged changes page by page,
\* fetches the commits of every change and the CI instances of every commit,
\* builds one record per change and one summary per group, writes the
\* result file and pushes the metrics.  Every HTTP request is a step whose
\* answer the platform chooses.  The model uses the GitHub names (prs,
\* pr_number, total_runs) for both platforms.

\* repos / projects of main, in the order of the list
Repos == <<"A", "B">>

Platforms == {"github", "gitlab"}

\* since_date = datetime.now(timezone.utc) - timedelta(days=days_back)
SinceDate(t) == t - DaysBack

\* merged_at of a listed change: null (<<>>), or a date <<d>>
MergedAts(t) == {<<>>, <<SinceDate(t) - 1>>, <<SinceDate(t)>>}

\* the number of pages of the platform's listing of each group: the first
\* group has MaxPages, the others one
PagesOf(r) == IF r = 1 THEN MaxPages ELSE 1

\* the answers of the platform to the request for page p of the listing of
\* the r-th group: up to MaxPageLen changes numbered by their place in the
\* listing, nothing after the last page
PageData(r, p, t) ==
    IF p > PagesOf(r) THEN {<<>>}
    ELSE UNION {{[k \in 1..n |-> [number |-> (p - 1) * MaxPageLen + k,
                                  merged_at |-> f[k],
                                  login |-> "dev"]] :
                    f \in [1..n -> MergedAts(t)]} : n \in 0..MaxPageLen}

\* the key under which a listed change and its record carry the author's
\* login: 'user' in the GitHub analyzer, 'author' in the GitLab analyzer
AuthorKey(platform) == IF platform = "github" THEN "user" ELSE "author"

\* the body of "for pr in data" of get_merged_prs / get_merged_mrs: skips the
\* changes without merged_at, returns at the first change merged before
\* since_date, appends the others
RECURSIVE TakeMerged(_, _, _, _)
TakeMerged(listed, data, since_date, author_key) ==
    IF data = <<>> THEN [prs |-> listed, return |-> FALSE]
    ELSE LET pr == Head(data)
         IN  IF pr.merged_at = <<>>
             THEN TakeMerged(listed, Tail(data), since_date, author_key)
             ELSE IF pr.merged_at[1] < since_date
                  THEN [prs |-> listed, return |-> TRUE]
                  ELSE TakeMerged(Append(listed,
                                         [number |-> pr.number,
                                          merged_at |-> pr.merged_at[1]]
                                         @@ (author_key :> pr.login)),
                                  Tail(data), since_date, author_key)

\* get_merged_prs / get_merged_mrs over a listing whose pages all answer:
\* the while loop from page on, with the changes listed so far
RECURSIVE GetMergedPrs(_, _, _, _, _)
GetMergedPrs(pages, page, listed, since_date, author_key) ==
    LET data == IF page <= Len(pages) THEN pages[page] ELSE <<>>
        taken == TakeMerged(listed, data, since_date, author_key)
    IN  IF data = <<>> THEN listed
        ELSE IF taken.return THEN taken.prs
        ELSE IF page + 1 > PageLimit THEN taken.prs
        ELSE GetMergedPrs(pages, page + 1, taken.prs, since_date, author_key)

\* the listings of the first group the platform can hold: up to MaxPages
\* non-empty pages
RECURSIVE ListingsFrom(_, _)
ListingsFrom(p, t) ==
    IF p > MaxPages THEN {<<>>}
    ELSE {<<>>} \cup {<<data>> \o rest : data \in PageData(1, p, t) \ {<<>>},
                                       rest \in ListingsFrom(p + 1, t)}

Listings(t) == ListingsFrom(1, t)

\* the CI instances the platform reports for a commit: check suites with
\* their app slug (GitHub), pipelines with their source (GitLab)
Instances == UNION {[1..n -> {"konflux", "other"}] : n \in 0..MaxRuns}

\* get_konflux_rerun_count: the suites whose app slug is red-hat-konflux;
\* len(filter_konflux_pipelines(pipelines)): the pipelines of a merge request
RECURSIVE KonfluxCount(_)
KonfluxCount(suites) ==
    IF suites = <<>> THEN 0
    ELSE (IF Head(suites) = "konflux" THEN 1 ELSE 0) + KonfluxCount(Tail(suites))

\* (mutant) every run counts as a retest, the original one too
RetestCount_AllRuns(run_count) == run_count

\* retest_count = max(0, run_count - 1)
RetestCount(run_count) == IF run_count - 1 > 0 THEN run_count - 1 ELSE 0

\* total_runs = 0; total_retests = 0; commits_with_retests = 0
ZeroAcc == [total_runs |-> 0, total_retests |-> 0, commits_with_retests |-> 0]

\* (mutant) the retests of a commit are its runs less one, below zero too
CountCommit_NoFloor(acc, run_count) ==
    [total_runs |-> acc.total_runs + run_count,
     total_retests |-> acc.total_retests + (run_count - 1),
     commits_with_retests |->
         acc.commits_with_retests + (IF run_count - 1 > 0 THEN 1 ELSE 0)]

\* the body of "for sha in commits" for a commit with run_count instances
CountCommit(acc, run_count) ==
    LET retest_count == RetestCount(run_count)
    IN  [total_runs |-> acc.total_runs + run_count,
         total_retests |-> acc.total_retests + retest_count,
         commits_with_retests |->
             acc.commits_with_retests + (IF retest_count > 0 THEN 1 ELSE 0)]

\* the record analyze_pr / analyze_mr returns
ChangeRecord(pr_info, commits, acc, author_key) ==
    [pr_number |-> pr_info.number,
     merged_at |-> pr_info.merged_at,
     total_commits |-> commits,
     total_runs |-> acc.total_runs,
     total_retests |-> acc.total_retests,
     commits_with_retests |-> acc.commits_with_retests]
    @@ (author_key :> pr_info[author_key])

\* n / d of Python: <<0, 0>> stands for ZeroDivisionError, any other value is
\* the quotient as a fraction in lowest terms
Quotient(n, d) ==
    IF d = 0 THEN <<0, 0>>
    ELSE LET g == GCD(n, d) IN <<n \div g, d \div g>>

DivisionError == <<0, 0>>

\* (mutant) the count adds up the retests instead of the changes that have some
PrsWithRetests_SumRetests(results) == SumField(results, "total_retests")

\* prs_with_retests = sum(1 for r in results if r['total_retests'] > 0)
PrsWithRetests(results) ==
    Cardinality({k \in 1..Len(results) : results[k].total_retests > 0})

\* (mutant) the average per commit is divided without the guard
GroupSummary_Unguarded(results) ==
    LET total_prs_analyzed == Len(results)
        total_commits == SumField(results, "total_commits")
        total_retests == SumField(results, "total_retests")
        prs_with_retests == PrsWithRetests(results)
    IN  [total_prs_analyzed |-> total_prs_analyzed,
         total_commits |-> total_commits,
         total_runs |-> SumField(results, "total_runs"),
         total_retests |-> total_retests,
         prs_with_retests |-> prs_with_retests,
         pr_retest_rate |-> IF total_prs_analyzed > 0
                            THEN Quotient(prs_with_retests * 100, total_prs_analyzed)
                            ELSE <<0, 1>>,
         avg_retests_per_pr |-> IF total_prs_analyzed > 0
                                THEN Quotient(total_retests, total_prs_analyzed)
                                ELSE <<0, 1>>,
         avg_retests_per_commit |-> Quotient(total_retests, total_commits)]

\* the 'summary' of a group whose changes were analysed
GroupSummary(results) ==
    LET total_prs_analyzed == Len(results)
        total_commits == SumField(results, "total_commits")
        total_retests == SumField(results, "total_retests")
        prs_with_retests == PrsWithRetests(results)
    IN  [total_prs_analyzed |-> total_prs_analyzed,
         total_commits |-> total_commits,
         total_runs |-> SumField(results, "total_runs"),
         total_retests |-> total_retests,
         prs_with_retests |-> prs_with_retests,
         pr_retest_rate |-> IF total_prs_analyzed > 0
                            THEN Quotient(prs_with_retests * 100, total_prs_analyzed)
                            ELSE <<0, 1>>,
         avg_retests_per_pr |-> IF total_prs_analyzed > 0
                                THEN Quotient(total_retests, total_prs_analyzed)
                                ELSE <<0, 1>>,
         avg_retests_per_commit |-> IF total_commits > 0
                                    THEN Quotient(total_retests, total_commits)
                                    ELSE <<0, 1>>]

\* the 'summary' written for a group without merged changes ("if not prs")
NoChangesSummary ==
    [total_prs_analyzed |-> 0, total_commits |-> 0, total_runs |-> 0,
     total_retests |-> 0, prs_with_retests |-> 0, pr_retest_rate |-> <<0, 1>>,
     avg_retests_per_pr |-> <<0, 1>>, avg_retests_per_commit |-> <<0, 1>>]

\* ---------------------------------------------------------- the exporters
\* An exporter's outcome: the summary observations (gauges) and the
\* per-change observations (pr_retests) that reach the sink, or raised.
\* Every value is a fraction, as the rates are.

\* the label value of the observations over all groups in the exporter scripts
AllGroupsLabel(platform) ==
    IF platform = "github" THEN "all_repositories" ELSE "all_projects"

\* the label value of the observations over all groups in the analyzers
LiveAllGroupsLabel(platform) ==
    IF platform = "github" THEN "all_repos" ELSE "all_projects"

SummaryMetrics == {"prs_analyzed", "retests_total", "retest_rate", "avg_retests_per_pr"}

Observation(metric, repository, value) ==
    [metric |-> metric, repository |-> repository, value |-> value]

\* the gauges set from one summary: prs_analyzed and retests_total always,
\* retest_rate and avg_retests_per_pr "if summary.get('total_prs_analyzed', 0) > 0"
SummaryObservations(repository, summary) ==
    {Observation("prs_analyzed", repository,
                 Quotient(Get(summary, "total_prs_analyzed", 0), 1)),
     Observation("retests_total", repository,
                 Quotient(Get(summary, "total_retests", 0), 1))}
    \cup (IF Get(summary, "total_prs_analyzed", 0) > 0
          THEN {Observation("retest_rate", repository,
                            Get(summary, "pr_retest_rate", <<0, 1>>)),
                Observation("avg_retests_per_pr", repository,
                            Get(summary, "avg_retests_per_pr", <<0, 1>>))}
          ELSE {})

\* pr_retests.labels(repository, pr_number, author).set(pr['total_retests'])
\* for the records of one group, read with the key author_key
PrRetests(repository, prs, author_key) ==
    {[repository |-> repository,
      pr_number |-> prs[k].pr_number,
      author |-> prs[k][author_key],
      value |-> Quotient(prs[k].total_retests, 1)] : k \in 1..Len(prs)}

\* push_github_metrics / push_gitlab_metrics of push_json_to_prometheus.py
\* over the document data: pr['author'] of a record without that key raises
\* KeyError before push_to_gateway is reached
PushJsonMetrics(data, platform) ==
    LET repositories == Get(data, "repositories", <<>>)
        prs == [name \in DOMAIN repositories |-> Get(repositories[name], "prs", <<>>)]
    IN  IF \E name \in DOMAIN repositories : \E k \in 1..Len(prs[name]) :
               "author" \notin DOMAIN prs[name][k]
        THEN [raised |-> TRUE, gauges |-> {}, pr_retests |-> {}]
        ELSE [raised |-> FALSE,
              gauges |->
                  UNION {SummaryObservations(name, Get(repositories[name], "summary", <<>>)) :
                            name \in DOMAIN repositories}
                  \cup SummaryObservations(AllGroupsLabel(platform),
                                           Get(data, "overall_summary", <<>>)),
              pr_retests |->
                  UNION {PrRetests(name, prs[name], "author") : name \in DOMAIN repositories}]

\* push_github_metrics / push_gitlab_metrics of push_to_grafana_cloud.py over
\* the document data: the summaries only, no observation per change
GrafanaMetrics(data, platform) ==
    LET repositories == Get(data, "repositories", <<>>)
    IN  [raised |-> FALSE,
         gauges |->
             UNION {SummaryObservations(name, Get(repositories[name], "summary", <<>>)) :
                       name \in DOMAIN repositories}
             \cup SummaryObservations(AllGroupsLabel(platform),
                                      Get(data, "overall_summary", <<>>)),
         pr_retests |-> {}]

\* the registry main fills while it runs and pushes at its end: a group left
\* by "if not prs: ... continue" sets no gauge
LiveMetrics(all_results, overall_summary, platform) ==
    LET analysed == {name \in DOMAIN all_results : all_results[name].prs # <<>>}
    IN  [raised |-> FALSE,
         gauges |->
             UNION {SummaryObservations(name, all_results[name].summary) : name \in analysed}
             \cup SummaryObservations(LiveAllGroupsLabel(platform), overall_summary),
         pr_retests |->
             UNION {PrRetests(name, all_results[name].prs, AuthorKey(platform)) :
                       name \in analysed}]

\* ------------------------------------------------- the state of a run
\* no analyzer is running (the merge engine's specification)
Idle == [pc |-> "idle"]

\* ------------------------------------------------------------ the inputs

\* the records a scrape of group name run at time t can hold: changes
\* merged up to t
Records(name, t) ==
    [pr_number : ItemIds[name], merged_at : 0..t, total_retests : Retests]

SeqsUpTo(S, n) == UNION {[1..k -> S] : k \in 0..n}

\* the group -> {prs: [...]} mappings over the groups S with at most n records
RECURSIVE Batches(_, _, _)
Batches(S, n, t) ==
    IF S = {} THEN {<<>>}
    ELSE LET name == CHOOSE g \in S : TRUE
         IN  UNION {{rest @@ (name :> [prs |-> items]) :
                        rest \in Batches(S \ {name}, n - Len(items), t)} :
                    items \in SeqsUpTo(Records(name, t), n)}

\* the non-empty increment documents of a scrape at time t
Increments(t) ==
    {[doc |-> "object", repositories |-> b] : b \in UNION {Batches(S, MaxBatch, t) : S \in SUBSET Groups}}

IncrementsAt == [t \in 0..MaxTime |-> Increments(t)]

\* -------------------------------------------------------------- actions
Init ==
    /\ now = 0
    /\ historical = None
    /\ run = Idle

\* time passes between two runs
Tick ==
    /\ now < MaxTime
    /\ now' = now + 1
    /\ UNCHANGED <<historical, run>>

\* merge_data finds no increment file, or an empty document, and returns
MergeNoIncrement ==
    /\ \E increment \in {None, EmptyDoc}, days_to_keep \in 0..MaxDays :
           historical' = MergeData(increment, historical, now, days_to_keep)
    /\ UNCHANGED <<now, run>>

\* merge_data merges an increment document and saves the store
Merge ==
    /\ \E increment \in IncrementsAt[now], days_to_keep \in 0..MaxDays :
           historical' = MergeData(increment, historical, now, days_to_keep)
    /\ UNCHANGED <<now, run>>

Next == Tick \/ MergeNoIncrement \/ Merge

Spec == Init /\ [][Next]_vars

\* main before its first request: nothing listed, nothing analysed, no file.
\* pc is the request in flight or the statement about to run; attempts counts
\* the attempts of the request in flight; seen keeps what the platform
\* answered for each commit of the change (<<n>>: n Konflux instances, <<>>:
\* the request failed); failed keeps the groups one of whose listing requests
\* failed.  seen and failed are not read by the program.
Started(p) ==
    [pc |-> "listing", platform |-> p, repo |-> 1, page |-> 1, prs |-> <<>>,
     idx |-> 0, commits |-> 0, acc |-> ZeroAcc, seen |-> <<>>, results |-> <<>>,
     all_results |-> <<>>, rate_limit_remaining |-> <<>>, attempts |-> 1,
     failed |-> {}, output_file |-> None, pushed |-> "no"]

\* all_results[name] = entry
Put(all_results, name, entry) ==
    [g \in DOMAIN all_results \cup {name} |->
        IF g = name THEN entry ELSE all_results[g]]

\* "for repo in repos" reaches the r-th group with the results gathered so
\* far, or leaves the loop: a new analyzer (rate_limit_remaining = None) sends
\* the listing request of page 1
StartRepo(s, r, gathered) ==
    [s EXCEPT !.pc = IF r > Len(Repos) THEN "save" ELSE "listing",
              !.repo = r, !.page = 1, !.prs = <<>>, !.idx = 0, !.commits = 0,
              !.acc = ZeroAcc, !.seen = <<>>, !.results = <<>>,
              !.all_results = gathered, !.rate_limit_remaining = <<>>,
              !.attempts = IF r > Len(Repos) THEN 0 ELSE 1]

\* self.rate_limit_remaining = int(response.headers.get('X-RateLimit-Remaining', 0))
\* of GitHub's _api_request.  GitLab's _api_request stores the header too, as
\* a string that nothing reads: it is left out.
Answered(s, remaining) ==
    IF s.platform = "github" THEN [s EXCEPT !.rate_limit_remaining = <<remaining>>]
    ELSE s

\* analyze_pr(prs[i]) sends the request for the commits of the change
StartChange(s, i) ==
    [s EXCEPT !.pc = "commits", !.idx = i, !.commits = 0, !.acc = ZeroAcc,
              !.seen = <<>>, !.attempts = 1]

\* main after get_merged_prs returned listed: a group without merged changes
\* gets the zero summary, otherwise the first change is analysed
ListingReturns(s, listed) ==
    IF listed = <<>>
    THEN StartRepo(s, s.repo + 1,
                   Put(s.all_results, Repos[s.repo],
                       [prs |-> <<>>, summary |-> NoChangesSummary]))
    ELSE StartChange([s EXCEPT !.prs = listed], 1)

\* main after analyze_pr returned result (<<>> for None): "if result:
\* results.append(result)", then the rate-limit test
ChangeReturns(s, result) ==
    [s EXCEPT !.pc = "ratecheck", !.results = @ \o result, !.attempts = 0]

\* the end of an iteration of "for pr_info in prs": the next change, or the
\* statistics of the group and the next group
AfterChange(s) ==
    IF s.idx < Len(s.prs)
    THEN StartChange(s, s.idx + 1)
    ELSE StartRepo(s, s.repo + 1,
                   Put(s.all_results, Repos[s.repo],
                       [prs |-> s.results, summary |-> GroupSummary(s.results)]))

\* sum(repo['summary'][key] for repo in all_results.values())
RECURSIVE SumSummaries(_, _, _)
SumSummaries(all_results, S, key) ==
    IF S = {} THEN 0
    ELSE LET name == CHOOSE g \in S : TRUE
         IN  all_results[name].summary[key] + SumSummaries(all_results, S \ {name}, key)

\* summary_data, the content of the result file
SummaryData(all_results) ==
    LET S == DOMAIN all_results
        overall_prs == SumSummaries(all_results, S, "total_prs_analyzed")
        overall_commits == SumSummaries(all_results, S, "total_commits")
        overall_retests == SumSummaries(all_results, S, "total_retests")
        overall_prs_with_retests == SumSummaries(all_results, S, "prs_with_retests")
    IN  [doc |-> "object",
         overall_summary |->
             [total_repos |-> Cardinality(S),
              total_prs_analyzed |-> overall_prs,
              total_commits |-> overall_commits,
              total_runs |-> SumSummaries(all_results, S, "total_runs"),
              total_retests |-> overall_retests,
              prs_with_retests |-> overall_prs_with_retests,
              pr_retest_rate |-> IF overall_prs > 0
                                 THEN Quotient(overall_prs_with_retests * 100, overall_prs)
                                 ELSE <<0, 1>>,
              avg_retests_per_pr |-> IF overall_prs > 0
                                     THEN Quotient(overall_retests, overall_prs)
                                     ELSE <<0, 1>>,
              avg_retests_per_commit |-> IF overall_commits > 0
                                         THEN Quotient(overall_retests, overall_commits)
                                         ELSE <<0, 1>>],
         repositories |-> all_results]

\* analyzer.rate_limit_remaining and analyzer.rate_limit_remaining < 10
\* (None and 0 are falsy)
RateLimitLow(rate_limit_remaining) ==
    /\ rate_limit_remaining # <<>>
    /\ rate_limit_remaining[1] # 0
    /\ rate_limit_remaining[1] < NearLimit

\* ------------------------------------------------- actions of the analyzers
RunInit ==
    /\ now = 0
    /\ historical = None
    /\ \E p \in Platforms : run = Started(p)

\* _api_request gets HTTP 403 with "rate limit" in the body (GitHub only):
\* it sleeps 60 s and calls itself again.  GitLab's _api_request has no such
\* branch: there every HTTP error is raised (RequestFails).
RateLimited ==
    /\ run.pc \in {"listing", "commits", "runs"}
    /\ run.platform = "github"
    /\ run.attempts < MaxAttempts
    /\ run' = [run EXCEPT !.attempts = @ + 1]
    /\ UNCHANGED <<now, historical>>

\* the listing request of a page is answered
ListPage ==
    /\ run.pc = "listing"
    /\ \E data \in PageData(run.repo, run.page, now), remaining \in RemainingValues :
           LET s == Answered(run, remaining)
               taken == TakeMerged(run.prs, data, SinceDate(now), AuthorKey(run.platform))
           IN  run' = IF data = <<>> THEN ListingReturns(s, run.prs)
                      ELSE IF taken.return THEN ListingReturns(s, taken.prs)
                      ELSE IF run.page + 1 > PageLimit THEN ListingReturns(s, taken.prs)
                      ELSE [s EXCEPT !.prs = taken.prs, !.page = @ + 1, !.attempts = 1]
    /\ UNCHANGED <<now, historical>>

\* the listing request raises.  GitHub: get_merged_prs lets it through and
\* main's except skips the group.  GitLab: get_merged_mrs catches it, leaves
\* its loop and returns the changes listed so far.
ListPageFails ==
    /\ run.pc = "listing"
    /\ LET s == [run EXCEPT !.failed = @ \cup {Repos[run.repo]}]
       IN  run' = IF run.platform = "github"
                  THEN StartRepo(s, run.repo + 1, run.all_results)
                  ELSE ListingReturns(s, run.prs)
    /\ UNCHANGED <<now, historical>>

\* the request for the commits of the change is answered with n commits.
\* Without commits GitHub's analyze_pr returns a record of zeros, GitLab's
\* analyze_mr returns None.
ListCommits ==
    /\ run.pc = "commits"
    /\ \E n \in 0..MaxCommits, remaining \in RemainingValues :
           LET s == [Answered(run, remaining) EXCEPT !.commits = n]
           IN  run' = IF n > 0 THEN [s EXCEPT !.pc = "runs", !.attempts = 1]
                      ELSE IF run.platform = "github"
                           THEN ChangeReturns(s, <<ChangeRecord(run.prs[run.idx], 0, ZeroAcc, AuthorKey(run.platform))>>)
                           ELSE ChangeReturns(s, <<>>)
    /\ UNCHANGED <<now, historical>>

\* the request for the commits raises: analyze_pr returns None (GitHub),
\* get_mr_commits returns [] and analyze_mr returns None (GitLab)
ListCommitsFails ==
    /\ run.pc = "commits"
    /\ run' = ChangeReturns(run, <<>>)
    /\ UNCHANGED <<now, historical>>

\* the loop "for sha in commits" after a commit: the next commit's request,
\* or the record of the change
AfterCommit(s) ==
    IF Len(s.seen) < s.commits
    THEN [s EXCEPT !.attempts = 1]
    ELSE ChangeReturns(s, <<ChangeRecord(s.prs[s.idx], s.commits, s.acc,
                                        AuthorKey(s.platform))>>)

\* the request for the CI instances of a commit is answered
CountRuns ==
    /\ run.pc = "runs"
    /\ \E suites \in Instances, remaining \in RemainingValues :
           run' = AfterCommit(
                    [Answered(run, remaining) EXCEPT
                                !.acc = CountCommit(@, KonfluxCount(suites)),
                                !.seen = Append(@,
                                    <<Cardinality({k \in DOMAIN suites : suites[k] = "konflux"})>>)])
    /\ UNCHANGED <<now, historical>>

\* (mutant) a failing request for the CI instances of a commit ends the
\* analysis of the change without a record
CountRunsFails_Abort ==
    /\ run.pc = "runs"
    /\ run' = ChangeReturns([run EXCEPT !.seen = Append(@, <<>>)], <<>>)
    /\ UNCHANGED <<now, historical>>

\* the request for the CI instances raises.  GitHub: the except of the loop
\* goes on with the next commit.  GitLab: get_commit_pipelines returns [],
\* which counts as a commit without pipelines.
CountRunsFails ==
    /\ run.pc = "runs"
    /\ LET s == [run EXCEPT !.seen = Append(@, <<>>)]
       IN  run' = IF run.platform = "github"
                  THEN AfterCommit(s)
                  ELSE AfterCommit([s EXCEPT !.acc = CountCommit(@, KonfluxCount(<<>>))])
    /\ UNCHANGED <<now, historical>>

\* the rate-limit courtesy of GitHub's main after each change; GitLab's loop
\* has no such test
RateCheck ==
    /\ run.pc = "ratecheck"
    /\ run' = IF run.platform = "github" /\ RateLimitLow(run.rate_limit_remaining)
              THEN [run EXCEPT !.pc = "sleeping"]
              ELSE AfterChange(run)
    /\ UNCHANGED <<now, historical>>

\* time.sleep(10) is over
Sleep ==
    /\ run.pc = "sleeping"
    /\ run' = AfterChange(run)
    /\ UNCHANGED <<now, historical>>

\* json.dump(summary_data, f)
Save ==
    /\ run.pc = "save"
    /\ run' = [run EXCEPT !.pc = "push", !.output_file = SummaryData(run.all_results)]
    /\ UNCHANGED <<now, historical>>

\* (mutant) the push is not inside try/except: a failing push ends main with
\* the exception
Push_Uncaught ==
    /\ run.pc = "push"
    /\ \E ok \in BOOLEAN :
           run' = [run EXCEPT !.pc = IF ok THEN "done" ELSE "raised",
                              !.pushed = IF ok THEN "ok" ELSE "failed"]
    /\ UNCHANGED <<now, historical>>

\* push_to_gateway / push_to_grafana_cloud inside try/except: the run ends
\* whether the push worked or not
Push ==
    /\ run.pc = "push"
    /\ \E ok \in BOOLEAN :
           run' = [run EXCEPT !.pc = "done", !.pushed = IF ok THEN "ok" ELSE "failed"]
    /\ UNCHANGED <<now, historical>>

RunNext ==
    \/ RateLimited
    \/ ListPage
    \/ ListPageFails
    \/ ListCommits
    \/ ListCommitsFails
    \/ CountRuns
    \/ CountRunsFails
    \/ RateCheck
    \/ Sleep
    \/ Save
    \/ Push

RunSpec == RunInit /\ [][RunNext]_vars

\* ============================================= merge_data, step by step
\* One invocation of merge_data as the steps between its accesses to the
\* files: the two loads, one pass of the loop per group of the increment,
\* and the save.  historical is the content of the historical file, which
\* main passes as output_file too; run.historical is the document in memory.

\* the increments whose k-th record of one group lacks the key pr_number
BrokenIncrements(t) ==
    UNION {UNION {{[increment EXCEPT !.repositories[name].prs[k] =
                       [merged_at |-> @.merged_at, total_retests |-> @.total_retests]] :
                      k \in 1..Len(increment.repositories[name].prs)} :
                  name \in DOMAIN increment.repositories} :
           increment \in Increments(t)}

\* what the increment file can hold when merge_data runs at time t
IncrementFiles(t) == {None} \cup Increments(t) \cup BrokenIncrements(t)

\* no invocation is under way
NotMerging == run.pc \in {"idle", "returned", "raised", "saved"}

\* lines 157-176: both files are loaded; without an increment merge_data
\* returns; a missing store is created in memory; the cutoff is computed
MergeLoad ==
    /\ NotMerging
    /\ run.merges < MaxMerges
    /\ \E increment \in IncrementFiles(now), days_to_keep \in 0..MaxDays :
           run' = [pc |-> IF Falsy(increment) THEN "returned" ELSE "loop",
                   merges |-> run.merges + 1,
                   increment |-> increment,
                   historical |-> IF Falsy(historical)
                                  THEN [doc |-> "object",
                                        created_at |-> now,
                                        days_analyzed |-> days_to_keep,
                                        repositories |-> <<>>]
                                  ELSE historical,
                   cutoff_iso |-> CutoffDate(now, days_to_keep),
                   days_to_keep |-> days_to_keep,
                   todo |-> IF Falsy(increment) THEN {}
                            ELSE DOMAIN Get(increment, "repositories", <<>>),
                   loads |-> [increment_file |-> 1, historical_file |-> 1],
                   saves |-> 0]
    /\ UNCHANGED <<now, historical>>

\* new_item[cfg['id_key']] raises KeyError for a record without the key
RaisesKeyError(new_items) ==
    \E k \in 1..Len(new_items) : "pr_number" \notin DOMAIN new_items[k]

\* (mutant) the document is saved at the end of every pass of the loop
MergeGroup_SaveEach ==
    /\ run.pc = "loop"
    /\ \E name \in run.todo :
           LET repositories == run.historical.repositories
               existing_items == IF name \in DOMAIN repositories
                                 THEN Get(repositories[name], "prs", <<>>)
                                 ELSE <<>>
               new_items == Get(run.increment.repositories[name], "prs", <<>>)
           IN  IF RaisesKeyError(new_items)
               THEN /\ run' = [run EXCEPT !.pc = "raised"]
                    /\ UNCHANGED historical
               ELSE /\ run' = [run EXCEPT
                                  !.todo = @ \ {name},
                                  !.saves = @ + 1,
                                  !.historical.repositories =
                                      Put(repositories, name,
                                          [prs |-> MergeItems(existing_items, new_items,
                                                              run.cutoff_iso)])]
                    /\ historical' = run'.historical
    /\ UNCHANGED now

\* lines 179-208: one pass of the loop over the increment's groups; the
\* KeyError of a record without pr_number ends merge_data
MergeGroup ==
    /\ run.pc = "loop"
    /\ \E name \in run.todo :
           LET repositories == run.historical.repositories
               existing_items == IF name \in DOMAIN repositories
                                 THEN Get(repositories[name], "prs", <<>>)
                                 ELSE <<>>
               new_items == Get(run.increment.repositories[name], "prs", <<>>)
           IN  IF RaisesKeyError(new_items)
               THEN run' = [run EXCEPT !.pc = "raised"]
               ELSE run' = [run EXCEPT
                               !.todo = @ \ {name},
                               !.historical.repositories =
                                   Put(repositories, name,
                                       [prs |-> MergeItems(existing_items, new_items,
                                                           run.cutoff_iso)])]
    /\ UNCHANGED <<now, historical>>

\* lines 210-241: after the loop the metadata and the summary are set and
\* save_json writes the document
MergeSave ==
    /\ run.pc = "loop"
    /\ run.todo = {}
    /\ LET repositories == run.historical.repositories
           document == [doc |-> "object",
                        created_at |-> run.historical.created_at,
                        days_analyzed |-> run.historical.days_analyzed,
                        repositories |-> repositories,
                        last_updated |-> now,
                        cutoff_date |-> run.cutoff_iso,
                        summary |-> BuildSummary(AllItems(repositories, DOMAIN repositories))]
       IN  /\ historical' = document
           /\ run' = [run EXCEPT !.pc = "saved", !.historical = document, !.saves = @ + 1]
    /\ UNCHANGED now

MergeInit ==
    /\ now = 0
    /\ historical = None
    /\ run = [pc |-> "idle", merges |-> 0]

MergeNext == MergeLoad \/ MergeGroup \/ MergeSave

MergeSpec == MergeInit /\ [][MergeNext]_vars

\* ========================================== the comment-command strategy
\* The extractor that counts retry commands in a change's discussion and
\* writes the count to the record's retest_comments, which merge_data adds
\* up.  A comment body is its lines, a line its whitespace-separated tokens
\* (a blank line has none).

RetryCommands == {"/retest"}

\* the lower-case form of a token
Lower(token) ==
    CASE token = "/RETEST" -> "/retest"
      [] token = "/Retest" -> "/retest"
      [] token = "LGTM" -> "lgtm"
      [] OTHER -> token

\* the bodies a discussion comment can have
Bodies ==
    {<<<<"lgtm">>>>,
     <<<<"/retest">>>>,
     <<<<"please">>, <<"/retest">>, <<"thanks">>>>,
     <<<<>>, <<"/RETEST", "please">>>>,
     <<<<"please", "/retest">>>>,
     <<<<"/retest">>, <<"/Retest">>>>}

\* the body starts with a retry command or has one as the first token of a
\* line, whatever its case
IsRetryComment(body) ==
    \E l \in 1..Len(body) : body[l] # <<>> /\ Lower(body[l][1]) \in RetryCommands

\* the discussion of a change is fetched
FetchComments ==
    /\ run.pc = "idle"
    /\ \E pr_number \in ItemIds["A"], comments \in SeqsUpTo(Bodies, MaxComments) :
           run' = [pc |-> "counting", pr_number |-> pr_number, comments |-> comments,
                   idx |-> 1, retest_comments |-> 0]
    /\ UNCHANGED <<now, historical>>

\* the next comment is looked at: a retry comment adds one to the count
CountComment ==
    /\ run.pc = "counting"
    /\ run.idx <= Len(run.comments)
    /\ run' = [run EXCEPT
                  !.idx = @ + 1,
                  !.retest_comments =
                      IF IsRetryComment(run.comments[run.idx]) THEN @ + 1 ELSE @]
    /\ UNCHANGED <<now, historical>>

\* the record of the change, with the count as its retest_comments and,
\* no branch update being counted, as its total_retests
CommentRecord(s) ==
    [pr_number |-> s.pr_number, merged_at |-> now,
     total_retests |-> s.retest_comments, retest_comments |-> s.retest_comments]

\* the record is written as the increment of its group and merge_data
\* merges it into the store
MergeRecord ==
    /\ run.pc = "counting"
    /\ run.idx > Len(run.comments)
    /\ historical' =
           MergeData([doc |-> "object",
                      repositories |-> [A |-> [prs |-> <<CommentRecord(run)>>]]],
                     historical, now, DaysToKeep)
    /\ run' = Idle
    /\ UNCHANGED now

CommentInit ==
    /\ now = 0
    /\ historical = None
    /\ run = Idle

CommentNext == FetchComments \/ CountComment \/ MergeRecord

CommentSpec == CommentInit /\ [][CommentNext]_vars

\* ------------------------------------------------ vocabulary of the claims
Stored == historical.doc = "object"

StoredGroups == IF Stored THEN DOMAIN historical.repositories ELSE {}

\* the record list of group name in store s
ItemsOf(s, name) == s.repositories[name].prs

\* every merge_data call possible in the current state: its increment and
\* its days_to_keep
Calls == IncrementsAt[now] \X (0..MaxDays)

NoDuplicateIds(items) ==
    \A i, j \in 1..Len(items) : items[i].pr_number = items[j].pr_number => i = j

SortedDesc(items) ==
    \A i, j \in 1..Len(items) : i < j => items[i].merged_at >= items[j].merged_at

\* C1: after a merge, no record of any group of the store (also of a group
\* the increment did not name) has merged_at < the store's cutoff_date.
C1_RetentionAllGroups ==
    Stored =>
        \A name \in StoredGroups :
            \A i \in 1..Len(ItemsOf(historical, name)) :
                ItemsOf(historical, name)[i].merged_at >= historical.cutoff_date

\* C4: after any sequence of merges from an absent store, every group's
\* record list is sorted by merged_at, most recent first.
C4_Ordering ==
    \A name \in StoredGroups : SortedDesc(ItemsOf(historical, name))

\* a store in which the sort had two different merged_at to order
C4_Witness ==
    \E name \in StoredGroups :
        /\ Len(ItemsOf(historical, name)) = 2
        /\ ItemsOf(historical, name)[1].merged_at > ItemsOf(historical, name)[2].merged_at

\* C9: after any sequence of merges from an absent store, no group holds two
\* records with the same item id, also when a batch repeats an id.
C9_UniqueIds ==
    \A name \in StoredGroups : NoDuplicateIds(ItemsOf(historical, name))

\* the store is what merging a batch that repeats an id into an absent store gives
C9_Witness ==
    /\ Stored
    /\ \E call \in Calls :
           /\ \E name \in DOMAIN call[1].repositories :
                  ~NoDuplicateIds(call[1].repositories[name].prs)
           /\ MergeData(call[1], None, now, call[2]) = historical
           /\ \E name \in StoredGroups : ItemsOf(historical, name) # <<>>

\* the store after the call
After(call) == MergeData(call[1], historical, now, call[2])

\* the number of records of items with the id
CountId(items, id) == Cardinality({k \in 1..Len(items) : items[k].pr_number = id})

\* items[j] is the last record of items with its id
IsLastOfId(items, j) ==
    \A k \in 1..Len(items) : items[k].pr_number = items[j].pr_number => k <= j

\* the groups the call's increment names that the store holds already
SharedGroups(call) == StoredGroups \cap DOMAIN call[1].repositories

\* C2 (as claimed): merging the same batch a second time, whenever that
\* happens, yields a store equal in every field to the already-merged one.
C2_IdempotentAnyTime ==
    \A call \in Calls : \A t2 \in now..MaxTime :
        MergeData(call[1], After(call), t2, call[2]) = After(call)

\* C2 (amended): the second merge of the same batch with the same
\* days_to_keep changes nothing but last_updated, cutoff_date, and the
\* records of the batch's groups that are older than the second cutoff,
\* which it drops (the summary being the aggregate of what is left); run at
\* the same clock reading it changes nothing at all.
C2_Idempotent ==
    \A call \in Calls : \A t2 \in now..MaxTime :
        LET once == After(call)
            twice == MergeData(call[1], once, t2, call[2])
            cutoff2 == CutoffDate(t2, call[2])
            kept == [name \in DOMAIN once.repositories |->
                        IF name \in DOMAIN call[1].repositories
                        THEN [prs |-> FilterOld(ItemsOf(once, name), cutoff2)]
                        ELSE once.repositories[name]]
        IN  /\ twice = [once EXCEPT !.last_updated = t2,
                                    !.cutoff_date = cutoff2,
                                    !.repositories = kept,
                                    !.summary = BuildSummary(AllItems(kept, DOMAIN kept))]
            /\ t2 = now => twice = once

\* the store is the result of merging a batch of two records, which merging
\* it again leaves as it is
C2_Witness ==
    /\ Stored
    /\ \E call \in Calls :
           /\ \E name \in DOMAIN call[1].repositories :
                  /\ Len(call[1].repositories[name].prs) = 2
                  /\ Len(ItemsOf(After(call), name)) = 2
           /\ call[2] = now - historical.cutoff_date
           /\ historical.last_updated = now
           /\ After(call) = historical

\* C3 (as claimed): an incoming record (the last of its id in the increment)
\* with the id of an existing record of its group is, after the merge, the
\* one record of that id in the group.
C3_UpsertReplaceAlways ==
    \A call \in Calls : \A name \in SharedGroups(call) :
        LET existing_items == ItemsOf(historical, name)
            new_items == call[1].repositories[name].prs
            merged == ItemsOf(After(call), name)
        IN  \A j \in 1..Len(new_items) :
                (/\ IsLastOfId(new_items, j)
                 /\ \E i \in 1..Len(existing_items) :
                        existing_items[i].pr_number = new_items[j].pr_number)
                => /\ CountId(merged, new_items[j].pr_number) = 1
                   /\ \E k \in 1..Len(merged) : merged[k] = new_items[j]

\* C3 (amended): for the last incoming record of an id that the group holds
\* already: if its merged_at >= cutoff, the merged group holds exactly one
\* record of that id and it is that incoming record, whole; otherwise the
\* merged group holds no record of that id.
C3_UpsertReplace ==
    \A call \in Calls : \A name \in SharedGroups(call) :
        LET existing_items == ItemsOf(historical, name)
            new_items == call[1].repositories[name].prs
            merged == ItemsOf(After(call), name)
            cutoff == CutoffDate(now, call[2])
        IN  \A j \in 1..Len(new_items) :
                (/\ IsLastOfId(new_items, j)
                 /\ \E i \in 1..Len(existing_items) :
                        existing_items[i].pr_number = new_items[j].pr_number)
                => IF new_items[j].merged_at >= cutoff
                   THEN /\ CountId(merged, new_items[j].pr_number) = 1
                        /\ \E k \in 1..Len(merged) : merged[k] = new_items[j]
                   ELSE CountId(merged, new_items[j].pr_number) = 0

\* the store holds a record that an in-window incoming record of the same
\* id, different in both other fields, replaces
C3_Witness ==
    /\ Stored
    /\ \E call \in Calls : \E name \in SharedGroups(call) :
           LET existing_items == ItemsOf(historical, name)
               new_items == call[1].repositories[name].prs
               merged == ItemsOf(After(call), name)
           IN  \E i \in 1..Len(existing_items), j \in 1..Len(new_items) :
                   /\ existing_items[i].pr_number = new_items[j].pr_number
                   /\ existing_items[i].merged_at # new_items[j].merged_at
                   /\ existing_items[i].total_retests # new_items[j].total_retests
                   /\ Len(existing_items) = 2
                   /\ \E k \in 1..Len(merged) : merged[k] = new_items[j]

\* C5: a merge leaves the record list of every group that its increment
\* does not name as it was, contents and order (and with it the group's
\* summary, which is derived from the list and not stored).
C5_CrossGroupIsolation ==
    \A call \in Calls : \A name \in StoredGroups \ DOMAIN call[1].repositories :
        /\ name \in DOMAIN After(call).repositories
        /\ After(call).repositories[name] = historical.repositories[name]

\* a merge that drops a record of the group it names while the other group
\* holds a record just as old
C5_Witness ==
    /\ Stored
    /\ \E call \in Calls : \E name \in StoredGroups \ DOMAIN call[1].repositories :
           /\ \E i \in 1..Len(ItemsOf(historical, name)) :
                  ItemsOf(historical, name)[i].merged_at < CutoffDate(now, call[2])
           /\ \E other \in SharedGroups(call) :
                  Len(ItemsOf(After(call), other)) < Len(ItemsOf(historical, other))

\* an increment document that names no group or holds no record
NoRecords(increment) ==
    \A name \in DOMAIN increment.repositories : increment.repositories[name].prs = <<>>

\* C6 (as claimed): an increment that is absent, an empty document, or a
\* document with no groups or no records leaves the store unchanged.
C6_EmptyIncrementNoOpAlways ==
    \A increment \in {None, EmptyDoc} \cup {i \in IncrementsAt[now] : NoRecords(i)} :
        \A days_to_keep \in 0..MaxDays :
            MergeData(increment, historical, now, days_to_keep) = historical

\* C6 (amended): an absent increment file or an empty document leaves the
\* store unchanged in every field; a non-empty document with no groups or
\* no records is merged like any other: the store exists afterwards, with
\* last_updated and cutoff_date those of this merge.
C6_EmptyIncrementNoOp ==
    /\ \A increment \in {None, EmptyDoc} : \A days_to_keep \in 0..MaxDays :
           MergeData(increment, historical, now, days_to_keep) = historical
    /\ \A increment \in {i \in IncrementsAt[now] : NoRecords(i)} :
           \A days_to_keep \in 0..MaxDays :
               LET after == MergeData(increment, historical, now, days_to_keep)
               IN  /\ after.doc = "object"
                   /\ after.last_updated = now
                   /\ after.cutoff_date = CutoffDate(now, days_to_keep)

\* a store with records, last updated before now, that the empty document
\* leaves as it is while a document naming a group without records empties
\* that group
C6_Witness ==
    /\ Stored
    /\ historical.last_updated < now
    /\ MergeData(EmptyDoc, historical, now, 0) = historical
    /\ \E name \in StoredGroups : \E increment \in IncrementsAt[now] :
           /\ NoRecords(increment)
           /\ name \in DOMAIN increment.repositories
           /\ ItemsOf(historical, name) # <<>>
           /\ ItemsOf(MergeData(increment, historical, now, 0), name) = <<>>

\* the increments the commutativity claim is checked on: those without
\* records, and those that name one group and hold at most MaxCommBatch
\* records of it
CommBatches ==
    {i \in IncrementsAt[now] :
        \/ NoRecords(i)
        \/ /\ Cardinality(DOMAIN i.repositories) = 1
           /\ \A name \in DOMAIN i.repositories :
                  Len(i.repositories[name].prs) <= MaxCommBatch}

\* A and B agree on every id they share (or share none)
Agree(A, B) ==
    \A name \in DOMAIN A.repositories \cap DOMAIN B.repositories :
        LET a == A.repositories[name].prs
            b == B.repositories[name].prs
        IN  \A i \in 1..Len(a), j \in 1..Len(b) :
                a[i].pr_number = b[j].pr_number => a[i] = b[j]

\* first A, then B, at the same clock reading with the same days_to_keep
Both(A, B, days_to_keep) ==
    MergeData(B, MergeData(A, historical, now, days_to_keep), now, days_to_keep)

SameRecords(x, y) ==
    /\ Len(x) = Len(y)
    /\ {x[k] : k \in 1..Len(x)} = {y[k] : k \in 1..Len(y)}

NoTies(items) ==
    \A i, j \in 1..Len(items) : items[i].merged_at = items[j].merged_at => i = j

\* C7 (as claimed): batches that agree on the ids they share commute, record
\* lists with their order and summary alike; of two batches that disagree
\* on an id, the record of the one merged last is stored.
C7_CommuteWithOrder ==
    \A A \in CommBatches, B \in CommBatches : \A days_to_keep \in 0..MaxDays :
        LET ab == Both(A, B, days_to_keep)
            ba == Both(B, A, days_to_keep)
        IN  /\ Agree(A, B) => /\ ab.repositories = ba.repositories
                               /\ ab.summary = ba.summary
            /\ \A name \in DOMAIN A.repositories \cap DOMAIN B.repositories :
                   LET a == A.repositories[name].prs
                       b == B.repositories[name].prs
                   IN  \A i \in 1..Len(a), j \in 1..Len(b) :
                           (/\ IsLastOfId(a, i) /\ IsLastOfId(b, j)
                            /\ a[i].pr_number = b[j].pr_number
                            /\ a[i] # b[j])
                           => \E k \in 1..Len(ItemsOf(ab, name)) :
                                  ItemsOf(ab, name)[k] = b[j]

\* C7 (amended): batches that agree on the ids they share commute in the
\* groups of the store, in the records of every group and in the summary,
\* and in the order of every group's records unless two of them have the
\* same merged_at; of two batches that disagree on an id, no record of that
\* id other than that of the batch merged last is stored.
C7_Commute ==
    \A A \in CommBatches, B \in CommBatches : \A days_to_keep \in 0..MaxDays :
        LET ab == Both(A, B, days_to_keep)
            ba == Both(B, A, days_to_keep)
        IN  /\ Agree(A, B) =>
                   /\ DOMAIN ab.repositories = DOMAIN ba.repositories
                   /\ \A name \in DOMAIN ab.repositories :
                          /\ SameRecords(ItemsOf(ab, name), ItemsOf(ba, name))
                          /\ NoTies(ItemsOf(ab, name))
                             => ItemsOf(ab, name) = ItemsOf(ba, name)
                   /\ ab.summary = ba.summary
            /\ \A name \in DOMAIN A.repositories \cap DOMAIN B.repositories :
                   LET a == A.repositories[name].prs
                       b == B.repositories[name].prs
                   IN  \A i \in 1..Len(a), j \in 1..Len(b) :
                           (/\ IsLastOfId(a, i) /\ IsLastOfId(b, j)
                            /\ a[i].pr_number = b[j].pr_number
                            /\ a[i] # b[j])
                           => \A k \in 1..Len(ItemsOf(ab, name)) :
                                  ItemsOf(ab, name)[k].pr_number = b[j].pr_number
                                  => ItemsOf(ab, name)[k] = b[j]

\* a store with a record on which two batches with one new record each, of
\* different merged_at, commute
C7_Witness ==
    /\ Stored
    /\ \E A \in CommBatches, B \in CommBatches : \E days_to_keep \in 0..MaxDays :
           /\ Agree(A, B)
           /\ \E name \in SharedGroups(<<A, days_to_keep>>) :
                  /\ name \in DOMAIN B.repositories
                  /\ Len(ItemsOf(historical, name)) = 1
                  /\ Len(ItemsOf(Both(A, B, days_to_keep), name)) = 2
                  /\ NoTies(ItemsOf(Both(A, B, days_to_keep), name))
                  /\ ItemsOf(MergeData(A, historical, now, days_to_keep), name)
                     # ItemsOf(MergeData(B, historical, now, days_to_keep), name)
           /\ Both(A, B, days_to_keep) = Both(B, A, days_to_keep)

\* C8 (as claimed): of an existing and an incoming record with the same id,
\* the one with the newer merged_at is the one stored.
C8_NewerMergedAtWins ==
    \A call \in Calls : \A name \in SharedGroups(call) :
        LET existing_items == ItemsOf(historical, name)
            new_items == call[1].repositories[name].prs
            merged == ItemsOf(After(call), name)
            cutoff == CutoffDate(now, call[2])
        IN  \A i \in 1..Len(existing_items), j \in 1..Len(new_items) :
                (/\ IsLastOfId(new_items, j)
                 /\ existing_items[i].pr_number = new_items[j].pr_number)
                => LET newer == IF existing_items[i].merged_at > new_items[j].merged_at
                                THEN existing_items[i] ELSE new_items[j]
                   IN  newer.merged_at >= cutoff
                       => \E k \in 1..Len(merged) : merged[k] = newer

\* C8 (amended): of an existing and an incoming record with the same id, the
\* incoming one (the last of that id in the increment) wins entirely, also
\* when the existing one has the newer merged_at: no other record of that id
\* is stored, and the incoming one is stored when it is in the window.
C8_IncomingWins ==
    \A call \in Calls : \A name \in SharedGroups(call) :
        LET existing_items == ItemsOf(historical, name)
            new_items == call[1].repositories[name].prs
            merged == ItemsOf(After(call), name)
            cutoff == CutoffDate(now, call[2])
        IN  \A i \in 1..Len(existing_items), j \in 1..Len(new_items) :
                (/\ IsLastOfId(new_items, j)
                 /\ existing_items[i].pr_number = new_items[j].pr_number
                 /\ existing_items[i].merged_at > new_items[j].merged_at)
                => /\ \A k \in 1..Len(merged) :
                          merged[k].pr_number = new_items[j].pr_number
                          => merged[k] = new_items[j]
                   /\ new_items[j].merged_at >= cutoff
                      => \E k \in 1..Len(merged) : merged[k] = new_items[j]

\* the store holds a record that an older, in-window incoming record of the
\* same id replaces
C8_Witness ==
    /\ Stored
    /\ \E call \in Calls : \E name \in SharedGroups(call) :
           LET existing_items == ItemsOf(historical, name)
               new_items == call[1].repositories[name].prs
               merged == ItemsOf(After(call), name)
           IN  \E i \in 1..Len(existing_items), j \in 1..Len(new_items) :
                   /\ existing_items[i].pr_number = new_items[j].pr_number
                   /\ existing_items[i].merged_at > new_items[j].merged_at
                   /\ \E k \in 1..Len(merged) : merged[k] = new_items[j]

\* C10: the stored summary is the aggregate of the stored records, and the
\* stored records are the in-window ones: the summary is the aggregate of
\* the records of all groups with merged_at >= cutoff_date.
C10_SummaryOverWindow ==
    Stored =>
        historical.summary =
            BuildSummary(FilterOld(AllItems(historical.repositories, StoredGroups),
                                   historical.cutoff_date))

\* C13: created_at is written only when the store is created: a merge into an
\* absent store sets it to the time of the merge, a merge into a store leaves
\* it as it is. Every merge that saves the store sets last_updated to the time
\* of the merge; so last_updated never decreases and created_at <= last_updated.
C13_Timestamps ==
    /\ Stored => historical.created_at <= historical.last_updated
    /\ \A call \in Calls :
           LET after == After(call)
           IN  /\ after.last_updated = now
               /\ after.created_at = (IF Stored THEN historical.created_at ELSE now)
               /\ after.created_at <= after.last_updated
               /\ Stored => historical.last_updated <= after.last_updated

\* a store created at an earlier time than the merge that is about to run
C13_Witness ==
    /\ Stored
    /\ historical.created_at < now
    /\ \E call \in Calls :
           /\ After(call).created_at = historical.created_at
           /\ After(call).last_updated > After(call).created_at

\* C14: after every merge that saves the store, cutoff_date is the time of
\* the merge minus the retention the store recorded at its creation
\* (days_analyzed), which no later merge changes, also when the merge is
\* called with another days_to_keep.
C14_CutoffFromStoredRetention ==
    \A call \in Calls :
        LET after == After(call)
        IN  /\ Stored => after.days_analyzed = historical.days_analyzed
            /\ after.cutoff_date = now - after.days_analyzed

\* the last record of each id of items, for the ids whose last record is in
\* the window
LastInWindow(items, cutoff) ==
    {items[j] : j \in {k \in 1..Len(items) :
                          IsLastOfId(items, k) /\ items[k].merged_at >= cutoff}}

\* the records of a list, as a set
Range(items) == {items[k] : k \in 1..Len(items)}

Analysed == DOMAIN run.all_results

\* the summary merge_data computes when it merges the analyzer's result file
\* into an absent store
MergedSummary == MergeData(run.output_file, None, now, DaysToKeep).summary

\* a fraction <<num, den>> is a number between lo and hi
Between(q, lo, hi) == q[2] > 0 /\ lo * q[2] <= q[1] /\ q[1] <= hi * q[2]

\* main holds the record of the change it has just analysed
RecordProduced ==
    /\ run.pc = "ratecheck"
    /\ run.results # <<>>
    /\ run.results[Len(run.results)].pr_number = run.prs[run.idx].number

\* the retries of a commit the platform reported n instances for
Retries(n) == IF n >= 2 THEN n - 1 ELSE 0

\* the sum over the commits of the change of the retries, or of the
\* instances, of the commits whose request was answered
RECURSIVE SumSeen(_, _)
SumSeen(seen, retries) ==
    IF seen = <<>> THEN 0
    ELSE (IF Head(seen) = <<>> THEN 0
          ELSE IF retries THEN Retries(Head(seen)[1]) ELSE Head(seen)[1])
         + SumSeen(Tail(seen), retries)

\* C11: a group without records gets a summary whose counts are all 0 and
\* whose rate and averages are 0; a group whose records have no commits gets
\* avg_retests_per_commit = 0; no summary of either analyzer holds a division
\* error; and the overall summary the merge engine computes from a result
\* file without records has counts 0 and rate 0.
C11_DegenerateAggregation ==
    /\ \A name \in Analysed :
           LET summary == run.all_results[name].summary
           IN  /\ summary.pr_retest_rate # DivisionError
               /\ summary.avg_retests_per_pr # DivisionError
               /\ summary.avg_retests_per_commit # DivisionError
               /\ run.all_results[name].prs = <<>> => summary = NoChangesSummary
               /\ summary.total_commits = 0 => summary.avg_retests_per_commit = <<0, 1>>
    /\ (run.pc = "done" /\ \A name \in Analysed : run.all_results[name].prs = <<>>)
       => /\ MergedSummary.total_prs = 0
          /\ MergedSummary.total_retests = 0
          /\ MergedSummary.prs_with_retests = 0
          /\ MergedSummary.retest_rate = <<0, 1>>
          /\ MergedSummary.retest_comments = 0
          /\ MergedSummary.update_branch_actions = 0

\* a run ended with one group without records and one whose only record has
\* no commits
C11_Witness ==
    /\ run.pc = "done"
    /\ \E name \in Analysed : run.all_results[name].prs = <<>>
    /\ \E name \in Analysed :
           /\ run.all_results[name].prs # <<>>
           /\ run.all_results[name].summary.total_commits = 0

\* C12: for every non-empty record list the number of records with retests
\* is at most the number of records and the retest rate is between 0 and
\* 100, in the group summaries of the analyzers and in the overall summary
\* the merge engine computes from the result file.
C12_RateBounds ==
    /\ \A name \in Analysed :
           LET summary == run.all_results[name].summary
           IN  run.all_results[name].prs # <<>>
               => /\ summary.prs_with_retests <= summary.total_prs_analyzed
                  /\ Between(summary.pr_retest_rate, 0, 100)
    /\ (run.pc = "done" /\ MergedSummary.total_prs > 0)
       => /\ MergedSummary.prs_with_retests <= MergedSummary.total_prs
          /\ Between(MergedSummary.retest_rate, 0, 100)

\* a run ended with a group of two records of which one has two retests and
\* the other none
C12_Witness ==
    /\ run.pc = "done"
    /\ \E name \in Analysed :
           LET prs == run.all_results[name].prs
           IN  /\ Len(prs) = 2
               /\ prs[1].total_retests = 2
               /\ prs[2].total_retests = 0
               /\ run.all_results[name].summary.pr_retest_rate = <<50, 1>>
    /\ MergedSummary.total_prs > 0

C17_CommitFailureIsolated ==
    /\ [](RecordProduced \/ (run.pc = "runs" /\ run.seen # <<>>)
            => /\ Len(run.seen) <= run.commits
               /\ run.acc.total_runs = SumSeen(run.seen, FALSE)
               /\ run.acc.total_retests = SumSeen(run.seen, TRUE))
    /\ []((RecordProduced /\ \E k \in 1..Len(run.seen) : run.seen[k] = <<>>)
            => LET record == run.results[Len(run.results)]
               IN  /\ record.total_commits = run.commits
                   /\ Len(run.seen) = run.commits
                   /\ record.total_runs = SumSeen(run.seen, FALSE)
                   /\ record.total_retests = SumSeen(run.seen, TRUE))
    /\ [][(run.pc = "runs" /\ run'.seen = Append(run.seen, <<>>))
            => /\ run'.acc = run.acc
               /\ IF Len(run'.seen) < run.commits
                  THEN run'.pc = "runs" /\ run'.results = run.results
                  ELSE /\ run'.pc = "ratecheck"
                       /\ Len(run'.results) = Len(run.results) + 1]_vars
    /\ [][(run.pc \in {"ratecheck", "sleeping"} /\ run'.pc \notin {"ratecheck", "sleeping"}
            /\ run.idx < Len(run.prs))
            => /\ run'.pc = "commits"
               /\ run'.idx = run.idx + 1
               /\ run'.results = run.results]_vars

\* the record of a change whose first commit's request failed and whose
\* second commit has two instances, with another change still to analyse
C17_Witness ==
    /\ RecordProduced
    /\ run.seen = << <<>>, <<2>> >>
    /\ run.results[Len(run.results)].total_retests = 1
    /\ run.results[Len(run.results)].total_commits = 2
    /\ run.idx < Len(run.prs)

\* C18: when a request of the listing of a group fails, no change of that
\* group is analysed, every other group is still analysed, the result file
\* is written and the run ends, on both platforms.
C18_ListingFailureAbortsGroup ==
    /\ \A name \in run.failed :
           /\ ~(run.pc \in {"commits", "runs", "ratecheck", "sleeping"}
                /\ run.repo <= Len(Repos) /\ Repos[run.repo] = name)
           /\ name \in Analysed => run.all_results[name].prs = <<>>
    /\ run.pc \in {"save", "push", "done"}
       => \A r \in 1..Len(Repos) : Repos[r] \notin run.failed => Repos[r] \in Analysed
    /\ run.pc \in {"push", "done"}
       => run.output_file = SummaryData(run.all_results)

\* C19: no request is attempted more than twice: after a rate-limit answer
\* it is retried once, and a second rate-limit answer or failure is raised.
C19_AtMostTwoAttempts == run.attempts <= 2

\* C20: after the analysis of a change, whenever the remaining quota last
\* reported is below 10 (0 to 9), GitHub's main sleeps before it goes on.
C20_SleepWhenLow ==
    [][(/\ run.pc = "ratecheck"
        /\ run.platform = "github"
        /\ run.rate_limit_remaining # <<>>
        /\ run.rate_limit_remaining[1] < NearLimit)
       => run'.pc = "sleeping"]_vars

\* C22: the result file is written before the push is attempted, and the
\* push, failed or not, leaves the file and the results as they are and ends
\* the run.
C22_ExportLast ==
    /\ [](run.pc = "push" => run.output_file = SummaryData(run.all_results))
    /\ [](run.pushed # "no"
            => run.pc = "done" /\ run.output_file = SummaryData(run.all_results))
    /\ [][run.pc = "push"
            => /\ run'.pc = "done"
               /\ run'.pushed # "no"
               /\ run'.output_file = run.output_file
               /\ run'.all_results = run.all_results]_vars
    /\ [][run.output_file.doc = "object" => run'.output_file = run.output_file]_vars

\* a run that ended after a failed push, with the file of its results
C22_Witness ==
    /\ run.pc = "done"
    /\ run.pushed = "failed"
    /\ run.output_file.doc = "object"
    /\ \E name \in Analysed : run.all_results[name].prs # <<>>

\* C25: for every listing, the changes get_merged_prs returns are the changes
\* of the first 10 pages merged at or after since_date, whatever the order
\* in which merged, unmerged, in-window and out-of-window changes appear.
C25_ListingComplete ==
    \A pages \in Listings(now) :
        LET got == GetMergedPrs(pages, 1, <<>>, SinceDate(now), "user")
        IN  /\ \A g \in 1..Len(got) : got[g].merged_at >= SinceDate(now)
            /\ \A p \in 1..Len(pages) : \A k \in 1..Len(pages[p]) :
                   (/\ p <= PageLimit
                    /\ pages[p][k].merged_at # <<>>
                    /\ pages[p][k].merged_at[1] >= SinceDate(now))
                   => \E g \in 1..Len(got) : got[g].number = pages[p][k].number

\* C29: in every record, total_retests is total_runs less the number of
\* commits with at least one attributable run, commits_with_retests is at
\* most total_commits, total_retests at most total_runs, and total_commits
\* counts the commits whose request failed as well.
C29_CountersConsistent ==
    RecordProduced =>
        LET record == run.results[Len(run.results)]
            ran == {k \in 1..Len(run.seen) : run.seen[k] # <<>> /\ run.seen[k][1] >= 1}
        IN  /\ record.total_retests = record.total_runs - Cardinality(ran)
            /\ record.commits_with_retests <= record.total_commits
            /\ record.total_retests <= record.total_runs
            /\ record.total_retests >= 0
            /\ record.total_commits = Len(run.seen)

\* a record of a change with a commit with two runs, a commit without runs
\* or a commit whose request failed
C29_Witness ==
    /\ RecordProduced
    /\ Len(run.seen) = 2
    /\ run.seen[1] = <<2>>
    /\ run.seen[2] \in {<<>>, <<0>>}
    /\ run.results[Len(run.results)].total_runs = 2

\* C26: a second merge of the same batch with the same cutoff leaves the
\* record list of every group, contents and order (among records of equal
\* merged_at too), and the overall summary as the first merge left them.
C26_IdempotentFixedCutoff ==
    \A call \in Calls : \A t2 \in now..MaxTime : \A days2 \in 0..MaxDays :
        CutoffDate(t2, days2) = CutoffDate(now, call[2])
        => LET once == After(call)
               twice == MergeData(call[1], once, t2, days2)
           IN  /\ DOMAIN twice.repositories = DOMAIN once.repositories
               /\ \A name \in DOMAIN once.repositories :
                      ItemsOf(twice, name) = ItemsOf(once, name)
               /\ twice.summary = once.summary

\* the store is what the second merge of a batch at the same cutoff left:
\* a group with the batch's two records of equal merged_at
C26_Witness ==
    /\ Stored
    /\ \E call \in Calls :
           /\ call[2] = now - historical.cutoff_date
           /\ MergeData(call[1], After(call), now, call[2]) = historical
           /\ After(call) = historical
           /\ \E name \in DOMAIN call[1].repositories :
                  LET new_items == call[1].repositories[name].prs
                      merged == ItemsOf(historical, name)
                  IN  /\ Len(new_items) = 2
                      /\ merged = new_items
                      /\ merged[1].merged_at = merged[2].merged_at
                      /\ merged[1].pr_number > merged[2].pr_number

\* C27 (as claimed): an incoming record older than the cutoff, with the id
\* of an existing in-window record, leaves the group without a record of
\* that id.
C27_StaleUpsertEvictsAlways ==
    \A call \in Calls : \A name \in SharedGroups(call) :
        LET existing_items == ItemsOf(historical, name)
            new_items == call[1].repositories[name].prs
            merged == ItemsOf(After(call), name)
            cutoff == CutoffDate(now, call[2])
        IN  \A j \in 1..Len(new_items) :
                (/\ new_items[j].merged_at < cutoff
                 /\ \E i \in 1..Len(existing_items) :
                        /\ existing_items[i].pr_number = new_items[j].pr_number
                        /\ existing_items[i].merged_at >= cutoff)
                => CountId(merged, new_items[j].pr_number) = 0

\* C27 (amended): when the last incoming record of an id is older than the
\* cutoff and the group holds an in-window record of that id, the merged
\* group holds no record of that id and the summary counts the records left.
C27_StaleUpsertEvicts ==
    \A call \in Calls : \A name \in SharedGroups(call) :
        LET existing_items == ItemsOf(historical, name)
            new_items == call[1].repositories[name].prs
            merged == ItemsOf(After(call), name)
            cutoff == CutoffDate(now, call[2])
        IN  \A j \in 1..Len(new_items) :
                (/\ IsLastOfId(new_items, j)
                 /\ new_items[j].merged_at < cutoff
                 /\ \E i \in 1..Len(existing_items) :
                        /\ existing_items[i].pr_number = new_items[j].pr_number
                        /\ existing_items[i].merged_at >= cutoff)
                => /\ CountId(merged, new_items[j].pr_number) = 0
                   /\ After(call).summary.total_prs = Len(AllItems(After(call).repositories, DOMAIN After(call).repositories))

\* the store holds an in-window record whose id the one incoming record, older
\* than the cutoff, carries: the merge leaves the group without it
C27_Witness ==
    /\ Stored
    /\ \E call \in Calls : \E name \in SharedGroups(call) :
           LET existing_items == ItemsOf(historical, name)
               new_items == call[1].repositories[name].prs
               merged == ItemsOf(After(call), name)
               cutoff == CutoffDate(now, call[2])
           IN  /\ Len(new_items) = 1
               /\ new_items[1].merged_at < cutoff
               /\ Len(existing_items) = 2
               /\ existing_items[2].pr_number = new_items[1].pr_number
               /\ existing_items[2].merged_at >= cutoff
               /\ Len(merged) = 1
               /\ merged[1] = existing_items[1]

\* what C21 asks of an exporter's outcome for the document data: one
\* observation per summary metric for every group and under the all-groups
\* label, and one observation per record with its group, id, author and
\* total_retests
ExportComplete(exported, data, all_groups, author_key) ==
    /\ ~exported.raised
    /\ \A repository \in DOMAIN data.repositories \cup {all_groups} :
           \A metric \in SummaryMetrics :
               Cardinality({o \in exported.gauges :
                               o.metric = metric /\ o.repository = repository}) = 1
    /\ \A name \in DOMAIN data.repositories :
           LET prs == data.repositories[name].prs
           IN  \A k \in 1..Len(prs) :
                   \E o \in exported.pr_retests :
                       /\ o.repository = name
                       /\ o.pr_number = prs[k].pr_number
                       /\ o.author = prs[k][author_key]
                       /\ o.value = Quotient(prs[k].total_retests, 1)

\* C21: for every result file an analyzer writes, the exporter script and
\* the analyzer's own registry hold one observation per summary metric for
\* every group and for all groups, and one per record, also when a group or
\* the run has no analysed change.
C21_ExportComplete ==
    run.output_file.doc = "object"
    => /\ ExportComplete(PushJsonMetrics(run.output_file, run.platform),
                         run.output_file, AllGroupsLabel(run.platform),
                         AuthorKey(run.platform))
       /\ ExportComplete(LiveMetrics(run.all_results, run.output_file.overall_summary,
                                     run.platform),
                         run.output_file, LiveAllGroupsLabel(run.platform),
                         AuthorKey(run.platform))

\* C28: for a store the merge wrote, the all-groups observations of items
\* analysed and total retests carry the store's summary totals, and every
\* group's observations carry the aggregates of the group's stored records.
C28_HistoricalExport ==
    Stored =>
        \A exported \in {PushJsonMetrics(historical, "github"),
                          GrafanaMetrics(historical, "github")} :
            /\ ~exported.raised
            /\ Observation("prs_analyzed", AllGroupsLabel("github"),
                           Quotient(historical.summary.total_prs, 1)) \in exported.gauges
            /\ Observation("retests_total", AllGroupsLabel("github"),
                           Quotient(historical.summary.total_retests, 1)) \in exported.gauges
            /\ \A name \in StoredGroups :
                   /\ Observation("prs_analyzed", name,
                                  Quotient(Len(ItemsOf(historical, name)), 1))
                          \in exported.gauges
                   /\ Observation("retests_total", name,
                                  Quotient(SumField(ItemsOf(historical, name), "total_retests"), 1))
                          \in exported.gauges

\* C24: an invocation of merge_data loads the increment and the store once
\* each and saves at most once, only after the loop has processed every
\* group of the increment, with the merged document; an invocation that
\* raises partway has saved nothing and the historical file is as it was.
C24_SingleReadSingleWrite ==
    /\ [](run.pc # "idle"
            => /\ run.loads = [increment_file |-> 1, historical_file |-> 1]
               /\ run.saves <= 1
               /\ run.saves = 1 <=> run.pc = "saved"
               /\ run.pc = "saved" => run.todo = {} /\ historical = run.historical)
    /\ [][run'.pc = "saved" /\ run.pc # "saved"
            => /\ run.pc = "loop"
               /\ run.todo = {}
               /\ historical' = MergeData(run.increment, historical, now, run.days_to_keep)]_vars
    /\ [][run'.pc # "saved" \/ run.pc = "saved" => historical' = historical]_vars

\* an invocation raised on the second group of its increment, after the
\* first was merged in memory: the historical file holds the store as saved
\* by the invocation before
C24_Witness ==
    /\ run.pc = "raised"
    /\ run.saves = 0
    /\ Stored
    /\ Cardinality(run.todo) = 1
    /\ Cardinality(DOMAIN run.increment.repositories) = 2
    /\ run.historical.repositories # historical.repositories

\* the retry comments among comments, each once
RetryComments(comments) == {k \in 1..Len(comments) : IsRetryComment(comments[k])}

\* the retest_comments of the stored record of group A with the id, 0 if
\* there is none
StoredRetestComments(id) ==
    IF Stored /\ "A" \in StoredGroups
       /\ \E k \in 1..Len(ItemsOf(historical, "A")) : ItemsOf(historical, "A")[k].pr_number = id
    THEN LET k == CHOOSE k \in 1..Len(ItemsOf(historical, "A")) :
                      ItemsOf(historical, "A")[k].pr_number = id
         IN  ItemsOf(historical, "A")[k].retest_comments
    ELSE 0

====
